---- MODULE Spec2Model ----
(***************************************************************************)
(* Model of AnimatorAvatar.retargetAnimationGroup (src/unnamed/part_004)   *)
(* and of the node editor launchers (inspector-v2/src/misc).               *)
(*                                                                         *)
(* Names are sequences of tokens, so that string concatenation             *)
(* (meshName + "_" + name) is computed and not assumed injective.          *)
(* Key values of an animation are abstracted to the sequence of passes     *)
(* that rewrote them (the matrix arithmetic itself belongs to the engine). *)
(***************************************************************************)
EXTENDS Integers, Sequences, FiniteSets, TLC

VARIABLES
    nodes,                  \* source scene: TransformNode / Mesh hierarchy
    skeletons,              \* AnimatorAvatar.skeletons, bones in iteration order
    morphTargetManagers,    \* AnimatorAvatar.morphTargetManagers, in iteration order
    mapMorph,               \* AnimatorAvatar._mapMorphTargetNameToMorphTarget
    showWarnings,           \* AnimatorAvatar.showWarnings
    sourceAnimationGroup,   \* the animation group handed to retargetAnimationGroup
    call,                   \* what the last retargetAnimationGroup call was given and returned
    launches,               \* editor launcher invocations (async functions)
    explorer                \* the explorer services and what they registered

vars == <<nodes, skeletons, morphTargetManagers, mapMorph, showWarnings,
          sourceAnimationGroup, call, launches, explorer>>

avatarVars == <<nodes, skeletons, morphTargetManagers, mapMorph, showWarnings,
                sourceAnimationGroup, call>>

\* Nothing was made by any explorer service: the state of each service ("none": its
\* factory was not called), the sections, entity commands and hooks registered, the
\* main sound track of the scene (0: undefined) and the tracks on which the sound
\* explorer holds its addSound and removeSound hooks (0: it holds none).
Services == {"FrameGraph", "ParticleSystem", "Material", "Sound"}

NoExplorer ==
    [services |-> [s \in Services |-> "none"], registrations |-> {},
     mainSoundTrack |-> 0, addSoundHook |-> 0, removeSoundHook |-> 0]

----------------------------------------------------------------------------
(* Bounds *)

\* longest source animation group (number of targeted animations)
MaxTargetedAnimations == 2
\* largest absolute coordinate of a node position
MaxCoord == 2
\* number of editor launcher invocations that may overlap
MaxLaunches == 2

----------------------------------------------------------------------------
(* Names and JavaScript values *)

Hips == <<"Hips">>
Foot == <<"Foot">>
MixamoHips == <<"mixamorig:Hips">>
EmptyName == <<>>
\* the value undefined where a string is expected; "" + undefined is "undefined"
UndefinedName == <<"undefined">>
\* an option field that the options object does not have
AbsentName == <<"#absent">>
Underscore == <<"_">>

\* truthiness of a string | undefined
TruthyName(n) == n # UndefinedName /\ n # EmptyName /\ n # AbsentName

\* truthiness of a boolean | undefined option
Truthy(b) == b = "true"

\* mapNodeNames.get(n) ?? n
MapName(mapNodeNames, n) ==
    IF n \in DOMAIN mapNodeNames THEN mapNodeNames[n] ELSE n

RemoveAt(s, i) == [k \in 1..(Len(s) - 1) |-> IF k < i THEN s[k] ELSE s[k + 1]]

Max(S) == CHOOSE x \in S : \A y \in S : y <= x

Abs(x) == IF x < 0 THEN -x ELSE x

----------------------------------------------------------------------------
(* Targets of targeted animations *)

SourceNodeTarget(n) ==
    [cls |-> nodes[n].cls, of |-> "source", id |-> n, name |-> nodes[n].name, meshName |-> EmptyName]

LinkedNodeTarget(linked) ==
    [cls |-> "TransformNode", of |-> "avatar", id |-> linked.id, name |-> linked.name, meshName |-> EmptyName]

SourceMorphTarget(j, name, meshName) ==
    [cls |-> "MorphTarget", of |-> "source", id |-> j, name |-> name, meshName |-> meshName]

AvatarMorphTarget(m, t) ==
    [cls |-> "MorphTarget", of |-> "avatar", id |-> 10 * m + t,
     name |-> morphTargetManagers[m].targets[t], meshName |-> morphTargetManagers[m].meshName]

\* ta.target.getClassName?.() === "TransformNode"
IsTransformNode(target) == target.cls = "TransformNode"

TransformProperties == {"position", "rotationQuaternion", "scaling"}

----------------------------------------------------------------------------
(* Source hierarchy *)

RECURSIVE _getRootNode(_)
_getRootNode(n) == IF nodes[n].parent = 0 THEN n ELSE _getRootNode(nodes[n].parent)

RECURSIVE Ancestors(_)
Ancestors(n) ==
    IF nodes[n].parent = 0 THEN {} ELSE {nodes[n].parent} \cup Ancestors(nodes[n].parent)

\* rootTransformNode.getDescendants(false, predicate): the root itself is no descendant
Descendants(root) == {n \in DOMAIN nodes : root \in Ancestors(n)}

----------------------------------------------------------------------------
(* Avatar: bones and morph targets *)

\* skeleton.findBoneFromLinkedTransformNodeName over the skeletons in order
FindBoneByName(bones, name) ==
    LET hits == {b \in DOMAIN bones : bones[b].linked.name = name}
    IN IF hits = {} THEN 0 ELSE CHOOSE b \in hits : \A c \in hits : b <= c

\* skeleton.findBoneFromLinkedTransformNode over the skeletons in order
FindBoneByNode(bones, target) ==
    LET hits == {b \in DOMAIN bones : target.of = "avatar" /\ bones[b].linked.id = target.id}
    IN IF hits = {} THEN 0 ELSE CHOOSE b \in hits : \A c \in hits : b <= c

MorphKey(meshName, name) == meshName \o Underscore \o name

NoMorphMap == [built |-> FALSE, m |-> <<>>]

_buildMorphTargetMap(managers) ==
    LET slots == {<<m, t>> \in (DOMAIN managers) \X (1..9) : t \in DOMAIN managers[m].targets}
        keyOf(s) == MorphKey(managers[s[1]].meshName, managers[s[1]].targets[s[2]])
        keys == {keyOf(s) : s \in slots}
        \* Map.set in iteration order: the last target written under a key stays
        last(k) == Max({10 * s[1] + s[2] : s \in {x \in slots : keyOf(x) = k}})
    IN [built |-> TRUE,
        m |-> [k \in keys |->
                 LET e == last(k)
                 IN [cls |-> "MorphTarget", of |-> "avatar", id |-> e,
                     name |-> managers[e \div 10].targets[e % 10],
                     meshName |-> managers[e \div 10].meshName]]]

\* get mapMorphTargetNameToMorphTarget(): builds the map on first use
mapMorphTargetNameToMorphTarget(cache, managers) ==
    IF ~cache.built THEN _buildMorphTargetMap(managers) ELSE cache

----------------------------------------------------------------------------
(* The working state of one retargetAnimationGroup call:                    *)
(*   src      sourceAnimationGroup.targetedAnimations                       *)
(*   tas      animationGroup.targetedAnimations (the clone's list)          *)
(*   warnings the Logger.Warn messages emitted (by kind)                    *)
(*   map      this._mapMorphTargetNameToMorphTarget                         *)
(*   played   the animation groups on which play() was called               *)

Warn(st, sw, w) == IF sw THEN [st EXCEPT !.warnings = @ \cup {w}] ELSE st

\* animationGroup.targetedAnimations.splice(i, 1)
SpliceSourceToo(st, i) ==
    [st EXCEPT !.tas = RemoveAt(@, i),
               !.src = IF i <= Len(@) THEN RemoveAt(@, i) ELSE @]

Splice(st, i) == [st EXCEPT !.tas = RemoveAt(@, i)]

\* ta.target = ...
SetTarget(st, i, target) == [st EXCEPT !.tas[i].target = target]

NoMorphCheck(st, i, managers, sw) ==
    LET ta == st.tas[i]
        cache == mapMorphTargetNameToMorphTarget(st.map, managers)
        st1 == [st EXCEPT !.map = cache]
        sameName == {k \in DOMAIN cache.m : cache.m[k].name = ta.target.name}
    IN  IF sameName = {}
        THEN [ok |-> FALSE, st |-> Warn(st1, sw, "morph target not found")]
        ELSE [ok |-> TRUE, st |-> SetTarget(st1, i, cache.m[CHOOSE k \in sameName : TRUE])]

_retargetMorphTarget(st, i, managers, sw) ==
    LET ta == st.tas[i]
        key == MorphKey(ta.target.meshName, ta.target.name)
        cache == mapMorphTargetNameToMorphTarget(st.map, managers)
        st1 == [st EXCEPT !.map = cache]
    IN  IF key \notin DOMAIN cache.m
        THEN [ok |-> FALSE, st |-> Warn(st1, sw, "morph target not found")]
        ELSE [ok |-> TRUE, st |-> SetTarget(st1, i, cache.m[key])]

\* the while (bone) loop of _checkParentHierarchy; tn = 0 is a null transformNode,
\* whose name reads as undefined unless mapNodeNames has the key ""
RECURSIVE CompareUpwards(_, _, _, _)
CompareUpwards(bones, b, tn, mapNodeNames) ==
    IF b = 0 THEN TRUE
    ELSE LET name == IF tn = 0
                     THEN (IF EmptyName \in DOMAIN mapNodeNames
                           THEN mapNodeNames[EmptyName] ELSE UndefinedName)
                     ELSE MapName(mapNodeNames, nodes[tn].name)
         IN  IF bones[b].linked.name # name THEN FALSE
             ELSE CompareUpwards(bones, bones[b].parent,
                                 IF tn = 0 THEN 0 ELSE nodes[tn].parent, mapNodeNames)

_checkParentHierarchy(bones, b, rootTransformNode, mapNodeNames) ==
    LET children == {n \in Descendants(rootTransformNode) :
                        MapName(mapNodeNames, nodes[n].name) = bones[b].linked.name}
    IN  IF Cardinality(children) # 1
        THEN [ok |-> FALSE, warning |-> "no corresponding transform node"]
        ELSE IF ~CompareUpwards(bones, b, CHOOSE n \in children : TRUE, mapNodeNames)
             THEN [ok |-> FALSE, warning |-> "bone name differs from transform node name"]
             ELSE [ok |-> TRUE, warning |-> ""]

_retargetTransformNodeToBone(st, i, sourceTransformNode, bones, b, mapNodeNames, checkHierarchy, sw) ==
    LET r == _checkParentHierarchy(bones, b, _getRootNode(sourceTransformNode), mapNodeNames)
    IN  IF checkHierarchy /\ ~r.ok
        THEN [ok |-> FALSE,
              st |-> Warn(Warn(st, sw, r.warning), sw, "parent hierarchy mismatch")]
        ELSE [ok |-> TRUE, st |-> SetTarget(st, i, LinkedNodeTarget(bones[b].linked))]

\* rewrites the key values from the source node's space to the linked node's space
_retargetAnimationKeys(st, i, bones, b) ==
    [st EXCEPT !.tas[i].keys = Append(@, [op |-> "retargetAnimationKeys", n |-> bones[b].linked.id])]

\* the for loop of retargetAnimationGroup over animationGroup.targetedAnimations;
\* after a splice the same index is visited again (i--, then ++i)
RECURSIVE RetargetLoop(_, _, _, _, _, _)
RetargetLoop(st, i, bones, managers, sw, lo) ==
    IF i > Len(st.tas) THEN st
    ELSE
    LET ta == st.tas[i]
    IN  CASE ta.targetProperty = "influence" ->
               LET r == _retargetMorphTarget(st, i, managers, sw)
               IN  IF ~r.ok
                   THEN RetargetLoop(Splice(r.st, i), i, bones, managers, sw, lo)
                   ELSE RetargetLoop(r.st, i + 1, bones, managers, sw, lo)
          [] ta.targetProperty \in TransformProperties ->
               IF ~IsTransformNode(ta.target)
               THEN RetargetLoop(st, i + 1, bones, managers, sw, lo)
               ELSE
               LET sourceTransformNodeName == MapName(lo.mapNodeNames, ta.target.name)
                   targetBone == FindBoneByName(bones, sourceTransformNodeName)
               IN  IF targetBone = 0
                   THEN IF sw
                        THEN RetargetLoop(Splice(Warn(st, sw, "bone not found"), i), i,
                                          bones, managers, sw, lo)
                        ELSE RetargetLoop(st, i + 1, bones, managers, sw, lo)
                   ELSE IF bones[targetBone].linked.id = 0
                   THEN RetargetLoop(Warn(st, sw, "no linked transform node"), i + 1,
                                     bones, managers, sw, lo)
                   ELSE
                   LET r == _retargetTransformNodeToBone(st, i, ta.target.id, bones, targetBone,
                                lo.mapNodeNames, Truthy(lo.checkHierarchy), sw)
                   IN  IF ~r.ok
                       THEN RetargetLoop(Splice(r.st, i), i, bones, managers, sw, lo)
                       ELSE IF Truthy(lo.retargetAnimationKeys)
                       THEN RetargetLoop(_retargetAnimationKeys(r.st, i, bones, targetBone),
                                         i + 1, bones, managers, sw, lo)
                       ELSE RetargetLoop(r.st, i + 1, bones, managers, sw, lo)
          [] OTHER -> RetargetLoop(st, i + 1, bones, managers, sw, lo)

\* copies the first of two orthogonal consecutive quaternions into the second
_fixAnimationQuaternion(st, i) ==
    [st EXCEPT !.tas[i].keys = Append(@, [op |-> "fixAnimationQuaternion", n |-> 0])]

RECURSIVE _fixAnimationGroup(_, _, _, _)
_fixAnimationGroup(st, i, bones, sw) ==
    IF i > Len(st.tas) THEN st
    ELSE
    LET ta == st.tas[i]
    IN  IF ta.targetProperty \in TransformProperties /\ IsTransformNode(ta.target)
        THEN LET bone == FindBoneByNode(bones, ta.target)
             IN  IF bone = 0
                 THEN _fixAnimationGroup(Splice(Warn(st, sw, "no bone animates the transform node"), i),
                                         i, bones, sw)
                 ELSE LET st1 == SetTarget(st, i, LinkedNodeTarget(bones[bone].linked))
                      IN  IF ta.targetProperty = "rotationQuaternion"
                          THEN _fixAnimationGroup(_fixAnimationQuaternion(st1, i), i + 1, bones, sw)
                          ELSE _fixAnimationGroup(st1, i + 1, bones, sw)
        ELSE _fixAnimationGroup(st, i + 1, bones, sw)

----------------------------------------------------------------------------
(* Root position and ground reference fixes *)

\* the index at which node n is first targeted in the source group
FirstTargetedAt(src, n) ==
    CHOOSE i \in DOMAIN src :
        /\ IsTransformNode(src[i].target) /\ src[i].target.id = n
        /\ \A j \in DOMAIN src :
              (IsTransformNode(src[j].target) /\ src[j].target.id = n) => i <= j

\* lstTransformNodes: the TransformNode targets of the source group
TargetedTransformNodes(src) ==
    {src[i].target.id : i \in {j \in DOMAIN src : IsTransformNode(src[j].target)}}

\* sourceTransformNodeNameToNode: name (after mapNodeNames) -> node; nodes are entered
\* in the order in which they are first targeted, a later one replacing an earlier one
SourceTransformNodeNameToNode(src, mapNodeNames) ==
    LET tns == TargetedTransformNodes(src)
        named(k) == {n \in tns : MapName(mapNodeNames, nodes[n].name) = k}
    IN  [k \in {MapName(mapNodeNames, nodes[n].name) : n \in tns} |->
            CHOOSE n \in named(k) :
                \A o \in named(k) : FirstTargetedAt(src, o) <= FirstTargetedAt(src, n)]

_getRootNodeName(rootNodeName, bones, transformNodeNameToNode) ==
    IF TruthyName(rootNodeName) THEN rootNodeName
    ELSE LET roots == {b \in DOMAIN bones :
                          bones[b].parent = 0 /\ bones[b].name \in DOMAIN transformNodeNameToNode}
         IN  IF roots = {} THEN UndefinedName
             ELSE bones[CHOOSE b \in roots : \A c \in roots : b <= c].name

AxisX == 0
AxisY == 1
AxisZ == 2

\* a variant that takes Z for "Y" and Y for "Z"
SwappedAxes(groundReferenceVerticalAxis, diff) ==
    IF groundReferenceVerticalAxis \notin {"undefined", ""}
    THEN CASE groundReferenceVerticalAxis = "Y" -> AxisZ
           [] groundReferenceVerticalAxis = "Z" -> AxisY
           [] OTHER -> AxisX
    ELSE LET first == IF Abs(diff[2]) > Abs(diff[1]) THEN AxisY ELSE AxisX
         IN  IF Abs(diff[3]) > Abs(diff[2]) THEN AxisZ ELSE first

\* the choice of the vertical axis made by _findVerticalAxis: the axis given, else the
\* outcome of its two comparisons
VerticalAxis(groundReferenceVerticalAxis, diff) ==
    IF groundReferenceVerticalAxis \notin {"undefined", ""}
    THEN CASE groundReferenceVerticalAxis = "Y" -> AxisY
           [] groundReferenceVerticalAxis = "Z" -> AxisZ
           [] OTHER -> AxisX
    ELSE LET first == IF Abs(diff[2]) > Abs(diff[1]) THEN AxisY ELSE AxisX
         IN  IF Abs(diff[3]) > Abs(diff[2]) THEN AxisZ ELSE first

Subtract(p, q) == <<p[1] - q[1], p[2] - q[2], p[3] - q[3]>>

\* TransformNode.getAbsolutePosition() after computeWorldMatrix(true): the translation of
\* the world matrix. The nodes of the model are neither rotated nor scaled, so it is the
\* sum of the positions of the node and of its parents.
RECURSIVE getAbsolutePosition(_)
getAbsolutePosition(n) ==
    IF nodes[n].parent = 0 THEN nodes[n].pos
    ELSE LET up == getAbsolutePosition(nodes[n].parent)
         IN  <<up[1] + nodes[n].pos[1], up[2] + nodes[n].pos[2], up[3] + nodes[n].pos[3]>>

\* the first targeted animation of the retargeted group that animates the position
\* of a target named like the root node; 0 when there is none
RootPositionAnimation(tas, remappedRootNodeName) ==
    LET hits == {i \in DOMAIN tas :
                    tas[i].target.name = remappedRootNodeName /\ tas[i].targetProperty = "position"}
    IN  IF hits = {} THEN 0 ELSE CHOOSE i \in hits : \A j \in hits : i <= j

NoAxis(st) == [ok |-> FALSE, st |-> st, verticalAxis |-> 0, root |-> 0]

_findVerticalAxis(st, sw, bones, remappedRootNodeName, sourceTransformNodeNameToNode, remappedGroundReferenceNodeName, groundReferenceVerticalAxis) ==
    IF ~TruthyName(remappedGroundReferenceNodeName)
    THEN NoAxis(Warn(st, sw, "you must provide the name of the ground reference node"))
    ELSE
    LET rootName == _getRootNodeName(remappedRootNodeName, bones, sourceTransformNodeNameToNode)
    IN  IF ~TruthyName(rootName)
        THEN NoAxis(Warn(st, sw, "unable to find a suitable root node"))
        ELSE IF rootName \notin DOMAIN sourceTransformNodeNameToNode
        THEN NoAxis(Warn(st, sw, "unable to find the root transform node"))
        ELSE IF remappedGroundReferenceNodeName \notin DOMAIN sourceTransformNodeNameToNode
        THEN NoAxis(Warn(st, sw, "unable to find the ground reference transform node"))
        ELSE IF RootPositionAnimation(st.tas, rootName) = 0
        THEN NoAxis(Warn(st, sw, "unable to find a position animation for the root node"))
        ELSE IF FindBoneByName(bones, remappedGroundReferenceNodeName) = 0
                \/ bones[FindBoneByName(bones, remappedGroundReferenceNodeName)].linked.id = 0
        THEN NoAxis(Warn(st, sw, "unable to find the ground reference bone"))
        ELSE [ok |-> TRUE, st |-> st,
              verticalAxis |->
                  VerticalAxis(groundReferenceVerticalAxis,
                      Subtract(getAbsolutePosition(sourceTransformNodeNameToNode[rootName]),
                               getAbsolutePosition(sourceTransformNodeNameToNode[remappedGroundReferenceNodeName]))),
              root |-> RootPositionAnimation(st.tas, rootName)]

\* plays both groups and rewrites the root position keys; the proportion ratio is taken
\* on the vertical axis
_fixRootPosition(st, root, verticalAxis) ==
    [st EXCEPT !.played = @ \cup {"source", "retargeted"},
               !.tas[root].keys = Append(@, [op |-> "fixRootPosition", n |-> verticalAxis])]

\* plays both groups and offsets the root position keys along the vertical axis
_fixGroundReference(st, root, verticalAxis) ==
    [st EXCEPT !.played = @ \cup {"source", "retargeted"},
               !.tas[root].keys = Append(@, [op |-> "fixGroundReference", n |-> verticalAxis])]

----------------------------------------------------------------------------
(* retargetAnimationGroup *)

\* An options object. A boolean or axis field is "absent" when the object does not have
\* it, and "undefined" when it has it with the value undefined; a name field is
\* AbsentName or UndefinedName. An omitted options argument spreads nothing, like {}.
\* mapNodeNames is a function; the empty function stands for an absent map as well,
\* since the code reads it as (localOptions.mapNodeNames ?? new Map()).
NoOptions ==
    [animationGroupName |-> AbsentName, fixAnimations |-> "absent", checkHierarchy |-> "absent",
     retargetAnimationKeys |-> "absent", fixRootPosition |-> "absent",
     fixGroundReference |-> "absent", rootNodeName |-> AbsentName,
     groundReferenceNodeName |-> AbsentName, groundReferenceVerticalAxis |-> "absent",
     mapNodeNames |-> <<>>]

\* { animationGroupName: sourceAnimationGroup.name, fixAnimations: true, ..., ...options }:
\* a field the options object has replaces the default, whatever its value
LocalOptions(sourceName, options) ==
    LET flag(v) == IF v = "absent" THEN "true" ELSE v
        name(v) == IF v = AbsentName THEN UndefinedName ELSE v
    IN  [animationGroupName |-> IF options.animationGroupName = AbsentName
                                THEN sourceName ELSE options.animationGroupName,
         fixAnimations |-> flag(options.fixAnimations),
         checkHierarchy |-> flag(options.checkHierarchy),
         retargetAnimationKeys |-> flag(options.retargetAnimationKeys),
         fixRootPosition |-> flag(options.fixRootPosition),
         fixGroundReference |-> flag(options.fixGroundReference),
         rootNodeName |-> name(options.rootNodeName),
         groundReferenceNodeName |-> name(options.groundReferenceNodeName),
         groundReferenceVerticalAxis |->
             IF options.groundReferenceVerticalAxis = "absent" THEN "undefined"
             ELSE options.groundReferenceVerticalAxis,
         mapNodeNames |-> options.mapNodeNames]

\* AnimationGroup.clone(newGroupName, undefined, true, true): a new group whose targeted
\* animations are new objects with cloned animations (and keys) and the same targets
AnimationGroupClone(group, newGroupName) ==
    [id |-> group.id + 1, name |-> newGroupName, targetedAnimations |-> group.targetedAnimations]

\* a variant that fixes the first position animation left in the group when the search
\* for the vertical axis gave nothing
FixWhateverWasFound(st, sw, bones, lo, sourceTransformNodeNameToNode) ==
    LET res == _findVerticalAxis(st, sw, bones,
                   MapName(lo.mapNodeNames, lo.rootNodeName), sourceTransformNodeNameToNode,
                   MapName(lo.mapNodeNames, lo.groundReferenceNodeName),
                   lo.groundReferenceVerticalAxis)
        positions == {i \in DOMAIN res.st.tas : res.st.tas[i].targetProperty = "position"}
        root == IF res.ok \/ positions = {} THEN res.root
                ELSE CHOOSE i \in positions : \A j \in positions : i <= j
        fixedRoot == IF Truthy(lo.fixRootPosition)
                     THEN _fixRootPosition(res.st, root, res.verticalAxis) ELSE res.st
    IN  IF root = 0 THEN res.st
        ELSE IF Truthy(lo.fixGroundReference)
             THEN _fixGroundReference(fixedRoot, root, res.verticalAxis)
             ELSE fixedRoot

\* the root position and ground reference fixes, run only when the vertical axis and
\* the nodes they need were found
FixRootAndGround(st, sw, bones, lo, sourceTransformNodeNameToNode) ==
    LET res == _findVerticalAxis(st, sw, bones,
                   MapName(lo.mapNodeNames, lo.rootNodeName), sourceTransformNodeNameToNode,
                   MapName(lo.mapNodeNames, lo.groundReferenceNodeName),
                   lo.groundReferenceVerticalAxis)
        fixedRoot == IF Truthy(lo.fixRootPosition)
                     THEN _fixRootPosition(res.st, res.root, res.verticalAxis) ELSE res.st
    IN  IF ~res.ok THEN res.st
        ELSE IF Truthy(lo.fixGroundReference)
             THEN _fixGroundReference(fixedRoot, res.root, res.verticalAxis)
             ELSE fixedRoot

\* the whole of retargetAnimationGroup: the returned group, the source group, the
\* morph target map, the warnings, the groups played and the vertical axis used
retargetAnimationGroup(bones, managers, cache, sw, group, options) ==
    LET lo == LocalOptions(group.name, options)
        sourceTransformNodeNameToNode ==
            SourceTransformNodeNameToNode(group.targetedAnimations, lo.mapNodeNames)
        animationGroup == AnimationGroupClone(group, lo.animationGroupName)
        st0 == [src |-> group.targetedAnimations, tas |-> animationGroup.targetedAnimations,
                warnings |-> {}, map |-> cache, played |-> {}]
        st1 == RetargetLoop(st0, 1, bones, managers, sw, lo)
        st2 == IF Truthy(lo.fixAnimations) THEN _fixAnimationGroup(st1, 1, bones, sw) ELSE st1
        st3 == IF Truthy(lo.fixGroundReference) \/ Truthy(lo.fixRootPosition)
               THEN FixRootAndGround(st2, sw, bones, lo, sourceTransformNodeNameToNode)
               ELSE st2
    IN  [animationGroup |-> [animationGroup EXCEPT !.targetedAnimations = st3.tas],
         source |-> [group EXCEPT !.targetedAnimations = st3.src],
         retargeted |-> st2.tas,
         map |-> st3.map, warnings |-> st3.warnings, played |-> st3.played]

----------------------------------------------------------------------------
(* Actions on the avatar *)

NoCall ==
    [status |-> "none", options |-> NoOptions, showWarnings |-> TRUE,
     morphTargetManagers |-> <<>>,
     source |-> [id |-> 0, name |-> EmptyName, targetedAnimations |-> <<>>],
     animationGroup |-> [id |-> 0, name |-> EmptyName, targetedAnimations |-> <<>>],
     retargeted |-> <<>>, warnings |-> {}, played |-> {}]

\* avatar.retargetAnimationGroup(sourceAnimationGroup, options)
RetargetAnimationGroup(options) ==
    \E r \in {retargetAnimationGroup(skeletons, morphTargetManagers, mapMorph, showWarnings,
                                    sourceAnimationGroup, options)} :
        /\ call' = [status |-> "returned", options |-> options, showWarnings |-> showWarnings,
                    morphTargetManagers |-> morphTargetManagers,
                    source |-> sourceAnimationGroup, animationGroup |-> r.animationGroup,
                    retargeted |-> r.retargeted, warnings |-> r.warnings, played |-> r.played]
        /\ mapMorph' = r.map
        /\ sourceAnimationGroup' = r.source
        \* lines 240-243: a targeted transform node without a rotation quaternion gets one
        /\ nodes' = [n \in DOMAIN nodes |->
                        IF n \in TargetedTransformNodes(sourceAnimationGroup.targetedAnimations)
                        THEN [nodes[n] EXCEPT !.rotationQuaternion = TRUE] ELSE nodes[n]]
        /\ UNCHANGED <<skeletons, morphTargetManagers, showWarnings, launches, explorer>>

\* avatar.showWarnings = b
SetShowWarnings(b) ==
    /\ showWarnings # b
    /\ showWarnings' = b
    /\ UNCHANGED <<nodes, skeletons, morphTargetManagers, mapMorph, sourceAnimationGroup,
                   call, launches, explorer>>

\* reading avatar.mapMorphTargetNameToMorphTarget
ReadMorphTargetMap ==
    /\ mapMorph' = mapMorphTargetNameToMorphTarget(mapMorph, morphTargetManagers)
    /\ mapMorph' # mapMorph
    /\ UNCHANGED <<nodes, skeletons, morphTargetManagers, showWarnings, sourceAnimationGroup,
                   call, launches, explorer>>

----------------------------------------------------------------------------
(* Scenes, avatars and animation groups the calls are made on *)

NodeIds == {1, 2, 3}
Origin == <<0, 0, 0>>

Armature == <<"Armature">>

\* the hierarchies of transform nodes in which node n has a name of Names[n] and a
\* parent of Parents[n] (0: none), created before it; all nodes are at the origin.
\* New nodes have no rotation quaternion (the engine's default).
Hierarchies(Names, Parents) ==
    {ns \in [NodeIds -> [name : UNION {Names[n] : n \in NodeIds}, parent : {0, 1, 2},
                         cls : {"TransformNode"}, pos : {Origin}, rotationQuaternion : {FALSE}]] :
        \A n \in NodeIds : ns[n].name \in Names[n] /\ ns[n].parent \in Parents[n] /\ ns[n].parent < n}

AnyParent == <<{0}, {0, 1}, {0, 1, 2}>>

Bone(name, id, parent) ==
    [name |-> name, linked |-> [id |-> id, name |-> name], parent |-> parent]

\* Skeletons whose bones are all linked to a transform node of the avatar, named like
\* the bone (lines 102-104); a parent bone comes before its children.
HipsFootSkeleton == <<Bone(Hips, 1, 0), Bone(Foot, 2, 1)>>

Face == <<"Face">>
Smile == <<"smile">>
Blink == <<"blink">>

OneManager == <<[meshName |-> Face, targets |-> <<Smile>>]>>

Animation(target, property) ==
    [target |-> target, targetProperty |-> property, keys |-> <<>>]

\* targeted animations on the transform nodes of hierarchy ns
NodeAnimations(ns, Animated) ==
    {Animation([cls |-> ns[a[1]].cls, of |-> "source", id |-> a[1], name |-> ns[a[1]].name,
                meshName |-> EmptyName], a[2]) : a \in Animated}

MorphAnimations(Morphs) ==
    {Animation(SourceMorphTarget(m[1], m[2], m[3]), "influence") : m \in Morphs}

\* animation groups of 1..MaxTargetedAnimations targeted animations; each targeted
\* animation remembers its place in the source group in the field from
Groups(Animations) ==
    UNION {{[id |-> 1, name |-> <<"Walk">>,
             targetedAnimations |-> [i \in 1..len |-> [from |-> i, target |-> as[i].target,
                                        targetProperty |-> as[i].targetProperty,
                                        keys |-> as[i].keys]]] :
            as \in [1..len -> Animations]} : len \in 1..MaxTargetedAnimations}

Flags == {"true", "false"}

----------------------------------------------------------------------------
(* Specification of the retargeting of targets *)

Init ==
    /\ nodes \in Hierarchies(<<{Hips, Foot, MixamoHips}, {Hips, Foot}, {Hips, Foot}>>, AnyParent)
    /\ skeletons = HipsFootSkeleton
    /\ morphTargetManagers = OneManager
    /\ mapMorph = NoMorphMap
    /\ showWarnings = TRUE
    /\ sourceAnimationGroup \in
          Groups(NodeAnimations(nodes, {<<1, "position">>, <<2, "rotationQuaternion">>,
                                        <<3, "position">>})
                 \cup MorphAnimations({<<1, Smile, Face>>}))
    /\ call = NoCall
    /\ launches = <<>>
    /\ explorer = NoExplorer

RetargetOptions ==
    {[NoOptions EXCEPT !.fixAnimations = fa, !.checkHierarchy = ch, !.mapNodeNames = mp] :
        fa \in Flags, ch \in Flags, mp \in {<<>>, MixamoHips :> Hips}}

Retarget == \E options \in RetargetOptions : RetargetAnimationGroup(options)

ToggleWarnings == \E b \in BOOLEAN : SetShowWarnings(b)

Next == Retarget \/ ToggleWarnings

Spec == Init /\ [][Next]_vars

----------------------------------------------------------------------------
(* Claims about the retargeting of targets *)

Returned == call.status = "returned"
Before == call.source.targetedAnimations
After == call.animationGroup.targetedAnimations

\* the targeted animation cloned from place i of the source group is in the returned group
Kept(i) == \E j \in DOMAIN After : After[j].from = i
TargetOf(i) == After[CHOOSE j \in DOMAIN After : After[j].from = i].target

\* targeted animation i of the source group animates the position, rotation or scaling
\* of a TransformNode
AnimatesTransformNode(i) ==
    /\ Before[i].target.cls = "TransformNode"
    /\ Before[i].targetProperty \in TransformProperties

\* the bones linked to a transform node with the name mapNodeNames gives the target of i
BonesFor(i) ==
    {b \in DOMAIN skeletons :
        skeletons[b].linked.name = MapName(call.options.mapNodeNames, Before[i].target.name)}

\* C1: a targeted animation of a TransformNode for which the avatar has no bone of the
\* (mapped) name is not in the returned group, whatever the options and showWarnings.
C1_NoBoneRemoved ==
    Returned =>
        \A i \in DOMAIN Before : (AnimatesTransformNode(i) /\ BonesFor(i) = {}) => ~Kept(i)

\* C3: the call made with the other value of showWarnings returns the same targeted
\* animations (same ones kept, same targets, same key values).
C3_WarningsOnly ==
    Returned =>
        retargetAnimationGroup(skeletons, morphTargetManagers, mapMorph, ~call.showWarnings,
                               call.source, call.options).animationGroup.targetedAnimations
          = After

\* C5: the returned group is not the source group, and the source group's targeted
\* animations are after the call what they were before it.
C5_SourceUntouched ==
    Returned =>
        /\ call.animationGroup.id # call.source.id
        /\ sourceAnimationGroup = call.source

\* a call that removed a targeted animation and gave another one a new target
C5_Witness ==
    /\ Returned
    /\ \E i \in DOMAIN Before : ~Kept(i)
    /\ \E i \in DOMAIN Before : Kept(i) /\ TargetOf(i) # Before[i].target

\* the names on the way up from bone b are those (after mapNodeNames) on the way up
\* from node n, for as long as the bone has a parent
RECURSIVE HierarchyMatches(_, _)
HierarchyMatches(n, b) ==
    IF b = 0 THEN TRUE
    ELSE IF n = 0 THEN FALSE
    ELSE /\ MapName(call.options.mapNodeNames, nodes[n].name) = skeletons[b].linked.name
         /\ HierarchyMatches(nodes[n].parent, skeletons[b].parent)

FirstBoneFor(i) == CHOOSE b \in BonesFor(i) : \A c \in BonesFor(i) : b <= c

\* C6: with checkHierarchy true, a targeted animation whose bone's parent hierarchy does
\* not match that of its source transform node is removed; with checkHierarchy false,
\* every targeted animation that has a bone is kept and retargeted to the bone's linked
\* transform node.
C6_CheckHierarchy ==
    Returned =>
        \A i \in DOMAIN Before :
            (AnimatesTransformNode(i) /\ BonesFor(i) # {}) =>
                /\ (call.options.checkHierarchy = "true"
                    /\ ~HierarchyMatches(Before[i].target.id, FirstBoneFor(i))) => ~Kept(i)
                /\ call.options.checkHierarchy = "false" =>
                      /\ Kept(i)
                      /\ TargetOf(i) = LinkedNodeTarget(skeletons[FirstBoneFor(i)].linked)

----------------------------------------------------------------------------
(* Specification of the retargeting of morph targets *)

\* Armature (root, at the origin) > Hips (at p1) > Foot (at p2)
Walker(p1, p2) ==
    [n \in NodeIds |->
        [name |-> CASE n = 1 -> Armature [] n = 2 -> Hips [] OTHER -> Foot,
         parent |-> n - 1, cls |-> "TransformNode",
         pos |-> CASE n = 1 -> Origin [] n = 2 -> p1 [] OTHER -> p2,
         rotationQuaternion |-> FALSE]]

HeadMesh == <<"Head">>
HeadSmile == <<"Head", "_", "smile">>
SmileWide == <<"smile", "_", "wide">>

\* a manager of mesh Head or Head_smile with the targets wide, smile_wide or both
Managers ==
    {[meshName |-> mesh, targets |-> targets] :
        mesh \in {HeadMesh, HeadSmile},
        targets \in {<<<<"wide">>>>, <<SmileWide>>, <<<<"wide">>, SmileWide>>}}

InitMorph ==
    /\ nodes = Walker(Origin, Origin)
    /\ skeletons = HipsFootSkeleton
    /\ morphTargetManagers \in {<<m>> : m \in Managers} \cup {<<m, n>> : m \in Managers, n \in Managers}
    /\ mapMorph = NoMorphMap
    /\ showWarnings = TRUE
    /\ sourceAnimationGroup \in
          Groups(NodeAnimations(nodes, {<<2, "position">>})
                 \cup MorphAnimations({<<j, name, mesh>> : j \in {1}, name \in {<<"wide">>, SmileWide, Blink},
                                                            mesh \in {HeadMesh, HeadSmile}}))
    /\ call = NoCall
    /\ launches = <<>>
    /\ explorer = NoExplorer

RetargetMorph ==
    \E options \in {NoOptions, [NoOptions EXCEPT !.fixAnimations = "false"]} :
        RetargetAnimationGroup(options)

NextMorph == RetargetMorph \/ ToggleWarnings \/ ReadMorphTargetMap

SpecMorph == InitMorph /\ [][NextMorph]_vars

\* the key under which the avatar would store the morph target animated by i
KeyOf(i) == Before[i].target.meshName \o <<"_">> \o Before[i].target.name

\* the avatar's morph target map has key k
AvatarHasKey(k) == mapMorph.built /\ k \in DOMAIN mapMorph.m

\* C2: an "influence" animation whose key meshName_name is in the avatar's morph target
\* map targets, in the returned group, the avatar morph target stored under that key;
\* one whose key is not in the map is not in the returned group.
C2_MorphTargets ==
    Returned =>
        \A i \in DOMAIN Before :
            Before[i].targetProperty = "influence" =>
                IF AvatarHasKey(KeyOf(i))
                THEN /\ Kept(i)
                     /\ TargetOf(i) = mapMorph.m[KeyOf(i)]
                     /\ TargetOf(i).of = "avatar"
                     /\ TargetOf(i).meshName \o <<"_">> \o TargetOf(i).name = KeyOf(i)
                ELSE ~Kept(i)

\* a call with one morph animation retargeted to a target of another name (the keys
\* Head_smile + _ + wide and Head + _ + smile_wide are the same) and one removed
C2_Witness ==
    /\ Returned
    /\ \E i \in DOMAIN Before :
          /\ Before[i].targetProperty = "influence" /\ Kept(i)
          /\ TargetOf(i).name # Before[i].target.name
    /\ \E i \in DOMAIN Before : Before[i].targetProperty = "influence" /\ ~Kept(i)

----------------------------------------------------------------------------
(* Specification of the root position and ground reference fixes *)

InitGround ==
    /\ nodes \in Hierarchies(<<{Armature}, {Hips, MixamoHips}, {Foot, MixamoHips}>>,
                              <<{0}, {1}, {0, 1, 2}>>)
    /\ skeletons = HipsFootSkeleton
    /\ morphTargetManagers = OneManager
    /\ mapMorph = NoMorphMap
    /\ showWarnings \in BOOLEAN
    /\ sourceAnimationGroup \in
          Groups(NodeAnimations(nodes, {<<2, "position">>, <<2, "rotationQuaternion">>,
                                        <<3, "position">>}))
    /\ call = NoCall
    /\ launches = <<>>
    /\ explorer = NoExplorer

GroundOptions ==
    {[NoOptions EXCEPT !.groundReferenceNodeName = ground, !.rootNodeName = root,
                       !.fixRootPosition = fixes[1], !.fixGroundReference = fixes[2],
                       !.mapNodeNames = mp] :
        ground \in {AbsentName, EmptyName, Foot, MixamoHips},
        root \in {AbsentName, Hips},
        mp \in {<<>>, MixamoHips :> Hips},
        fixes \in {<<"true", "true">>, <<"true", "false">>, <<"false", "true">>}}

RetargetGround == \E options \in GroundOptions : RetargetAnimationGroup(options)

NextGround == RetargetGround

SpecGround == InitGround /\ [][NextGround]_vars

GroundName == MapName(call.options.mapNodeNames, call.options.groundReferenceNodeName)

\* the names (after mapNodeNames) of the transform nodes the source group animates
AnimatedNames ==
    {MapName(call.options.mapNodeNames, Before[i].target.name) :
        i \in {j \in DOMAIN Before : Before[j].target.cls = "TransformNode"}}

\* the parentless bones that have an animated transform node of their name
RootBones == {b \in DOMAIN skeletons : skeletons[b].parent = 0 /\ skeletons[b].name \in AnimatedNames}

\* the name of the root node: the one given, else that of the first such bone
RootName ==
    IF call.options.rootNodeName \notin {AbsentName, UndefinedName, EmptyName}
    THEN MapName(call.options.mapNodeNames, call.options.rootNodeName)
    ELSE IF RootBones = {} THEN UndefinedName
    ELSE skeletons[CHOOSE b \in RootBones : \A c \in RootBones : b <= c].name

GroundNotProvided == call.options.groundReferenceNodeName \in {AbsentName, UndefinedName, EmptyName}
RootNodeNotFound == RootName \notin AnimatedNames
GroundNodeNotFound == GroundName \notin AnimatedNames
RootPositionNotFound ==
    ~\E j \in DOMAIN call.retargeted :
        call.retargeted[j].target.name = RootName /\ call.retargeted[j].targetProperty = "position"
GroundBoneNotFound == ~\E b \in DOMAIN skeletons : skeletons[b].linked.name = GroundName

FixRequested ==
    call.options.fixRootPosition = "true" \/ call.options.fixGroundReference = "true"

FixKeys == {"fixRootPosition", "fixGroundReference"}

\* no key of the returned group was rewritten by one of the two fixes
NoFixedKeys ==
    \A j \in DOMAIN After : \A k \in DOMAIN After[j].keys : After[j].keys[k].op \notin FixKeys

\* C7: when a fix is requested and the ground reference node name is not provided, or
\* the root node, the ground reference node, the root position animation or the ground
\* reference bone is not found, the call returns the group as the retargeting step left
\* it: no fix ran and no animation group was played.
C7_FixesSkipped ==
    (Returned /\ FixRequested
       /\ (GroundNotProvided \/ RootNodeNotFound \/ GroundNodeNotFound
           \/ RootPositionNotFound \/ GroundBoneNotFound))
    => /\ call.played = {}
       /\ After = call.retargeted
       /\ NoFixedKeys

\* a call that names a ground reference node which is animated, with the root found and
\* its position animated, but for which the avatar has no bone
C7_Witness ==
    /\ Returned /\ FixRequested
    /\ ~GroundNotProvided /\ ~RootNodeNotFound /\ ~GroundNodeNotFound /\ ~RootPositionNotFound
    /\ GroundBoneNotFound
    /\ call.played = {}

----------------------------------------------------------------------------
(* Specification of the choice of the vertical axis *)

Coords == (0 - MaxCoord)..MaxCoord

\* the walker with its feet anywhere around its hips; the group animates the position
\* of the hips and of the foot
InitAxis ==
    /\ nodes \in {Walker(p1, p2) : p1 \in {Origin, <<1, 1, 1>>}, p2 \in Coords \X Coords \X Coords}
    /\ skeletons = HipsFootSkeleton
    /\ morphTargetManagers = OneManager
    /\ mapMorph = NoMorphMap
    /\ showWarnings = TRUE
    /\ sourceAnimationGroup \in
          {g \in Groups(NodeAnimations(nodes, {<<2, "position">>, <<3, "position">>})) :
              Len(g.targetedAnimations) = 2
              /\ g.targetedAnimations[1].target.id = 2 /\ g.targetedAnimations[2].target.id = 3}
    /\ call = NoCall
    /\ launches = <<>>
    /\ explorer = NoExplorer

AxisOptions ==
    {[NoOptions EXCEPT !.groundReferenceNodeName = Foot, !.groundReferenceVerticalAxis = axis,
                       !.fixRootPosition = fixes[1], !.fixGroundReference = fixes[2]] :
        axis \in {"absent", "undefined", "", "X", "Y", "Z"},
        fixes \in {<<"true", "true">>, <<"true", "false">>, <<"false", "true">>}}

RetargetAxis == \E options \in AxisOptions : RetargetAnimationGroup(options)

NextAxis == RetargetAxis

SpecAxis == InitAxis /\ [][NextAxis]_vars

\* the vertical axes the fixes of the call used, read from the keys they wrote
AxesUsed ==
    UNION {{After[j].keys[k].n :
               k \in {l \in DOMAIN After[j].keys : After[j].keys[l].op \in FixKeys}} :
           j \in DOMAIN After}

NodeNamed(name) == CHOOSE n \in NodeIds : nodes[n].name = name

\* the difference between the absolute positions of the source root node and of the
\* source ground reference node of the call
Diff == Subtract(getAbsolutePosition(NodeNamed(RootName)), getAbsolutePosition(NodeNamed(GroundName)))

\* the axes on which the difference is the largest in absolute value
LargestAxes == {a \in {AxisX, AxisY, AxisZ} : \A c \in 1..3 : Abs(Diff[a + 1]) >= Abs(Diff[c])}

GivenAxis == call.options.groundReferenceVerticalAxis

\* C8: with groundReferenceVerticalAxis "X", "Y" or "Z" the fixes use the axis 0, 1 or 2,
\* wherever the root and ground reference nodes are.
C8_ExplicitAxis ==
    (Returned /\ GivenAxis \in {"X", "Y", "Z"}) =>
        /\ AxesUsed # {}
        /\ AxesUsed = {CASE GivenAxis = "X" -> AxisX [] GivenAxis = "Y" -> AxisY [] OTHER -> AxisZ}

\* a call that was given "Z" and used Z though the two nodes differ most, and only, on Y
C8_Witness ==
    /\ Returned /\ GivenAxis = "Z" /\ AxesUsed = {AxisZ}
    /\ LargestAxes = {AxisY} /\ Diff[3] = 0

\* C9: with groundReferenceVerticalAxis "" or undefined (or not given), the fixes use the
\* axis on which the difference is the largest, when there is only one such axis.
C9_LargestDifference ==
    (Returned /\ GivenAxis \in {"absent", "undefined", ""} /\ Cardinality(LargestAxes) = 1) =>
        AxesUsed = LargestAxes

----------------------------------------------------------------------------
(* Specification of the defaults of the options *)

\* Armature > Hips > Foot, or the foot beside the hips; the positions and the rotation of
\* the hips and of the foot are animated
InitOptions ==
    /\ nodes \in Hierarchies(<<{Armature}, {Hips}, {Foot}>>, <<{0}, {1}, {1, 2}>>)
    /\ skeletons = HipsFootSkeleton
    /\ morphTargetManagers = OneManager
    /\ mapMorph = NoMorphMap
    /\ showWarnings = TRUE
    /\ sourceAnimationGroup \in
          Groups(NodeAnimations(nodes, {<<2, "position">>, <<3, "position">>,
                                        <<3, "rotationQuaternion">>}))
    /\ call = NoCall
    /\ launches = <<>>
    /\ explorer = NoExplorer

Unspecified == {"absent", "undefined"}

Run == <<"Run">>

\* options objects whose fields with a documented default are absent or undefined
UnspecifiedOptions ==
    {[NoOptions EXCEPT !.groundReferenceNodeName = Foot, !.animationGroupName = name,
                       !.fixAnimations = flags[1], !.checkHierarchy = flags[2],
                       !.retargetAnimationKeys = flags[3], !.fixRootPosition = flags[4],
                       !.fixGroundReference = flags[5]] :
        name \in {AbsentName, UndefinedName, Run},
        flags \in [1..5 -> Unspecified]}

RetargetUnspecified == \E options \in UnspecifiedOptions : RetargetAnimationGroup(options)

NextOptions == RetargetUnspecified

SpecOptions == InitOptions /\ [][NextOptions]_vars

\* the options with every unspecified field set to its documented default
DocumentedDefaults(options, sourceName) ==
    LET flag(v) == IF v \in Unspecified THEN "true" ELSE v
    IN  [options EXCEPT !.animationGroupName = IF @ \in {AbsentName, UndefinedName}
                                               THEN sourceName ELSE @,
                        !.fixAnimations = flag(@), !.checkHierarchy = flag(@),
                        !.retargetAnimationKeys = flag(@), !.fixRootPosition = flag(@),
                        !.fixGroundReference = flag(@)]

\* C4: a call returns the group that the call with the documented defaults written out
\* for the unspecified options returns.
C4_Defaults ==
    Returned =>
        call.animationGroup =
            retargetAnimationGroup(skeletons, morphTargetManagers, mapMorph, call.showWarnings,
                call.source, DocumentedDefaults(call.options, call.source.name)).animationGroup

----------------------------------------------------------------------------
(* The editor launchers *)

\* launches holds one record for each invocation of a launcher: the launcher, the number
\* of calls it made to edit(), the state of the promise edit() returned and the state of
\* the promise the launcher returned to its caller.

\* the call of an async launcher runs up to its await: edit() is called once and the
\* promise given to the caller is pending
Launch(fn) ==
    /\ Len(launches) < MaxLaunches
    /\ launches' = Append(launches, [fn |-> fn, edits |-> 1, edit |-> "pending",
                                     promise |-> "pending"])
    /\ UNCHANGED <<avatarVars, explorer>>

EditNodeRenderGraph == Launch("EditNodeRenderGraph")

EditNodeGeometry == Launch("EditNodeGeometry")

EditNodeMaterial == Launch("EditNodeMaterial")

\* the engine settles the promise of an edit(): the editor is shown, or it failed
EditSettles(i, outcome) ==
    /\ launches[i].edit = "pending"
    /\ launches' = [launches EXCEPT ![i].edit = outcome]
    /\ UNCHANGED <<avatarVars, explorer>>

\* a variant that calls edit() again when the first call was rejected
ResumeWithRetry(i) ==
    /\ launches[i].edit # "pending"
    /\ launches[i].promise = "pending"
    /\ launches' = IF launches[i].edit = "rejected" /\ launches[i].edits = 1
                   THEN [launches EXCEPT ![i].edits = 2, ![i].edit = "pending"]
                   ELSE [launches EXCEPT ![i].promise = launches[i].edit]
    /\ UNCHANGED <<avatarVars, explorer>>

\* the launcher resumes after its await: it ends, or the rejection is thrown out of it
Resume(i) ==
    /\ launches[i].edit # "pending"
    /\ launches[i].promise = "pending"
    /\ launches' = [launches EXCEPT ![i].promise = launches[i].edit]
    /\ UNCHANGED <<avatarVars, explorer>>

InitEditors ==
    /\ nodes = Walker(Origin, Origin)
    /\ skeletons = HipsFootSkeleton
    /\ morphTargetManagers = OneManager
    /\ mapMorph = NoMorphMap
    /\ showWarnings = TRUE
    /\ sourceAnimationGroup \in
          {g \in Groups(NodeAnimations(nodes, {<<2, "position">>})) : Len(g.targetedAnimations) = 1}
    /\ call = NoCall
    /\ launches = <<>>
    /\ explorer = NoExplorer

Settle == \E i \in DOMAIN launches : \E outcome \in {"fulfilled", "rejected"} : EditSettles(i, outcome)

Continue == \E i \in DOMAIN launches : Resume(i)

NextEditors ==
    \/ EditNodeRenderGraph
    \/ EditNodeGeometry
    \/ EditNodeMaterial
    \/ Settle
    \/ Continue

SpecEditors == InitEditors /\ [][NextEditors]_vars

\* C10: every invocation of a launcher has called edit() once, and its promise is
\* settled only after that of its edit(), in the same way: fulfilled when edit() was
\* fulfilled, rejected when it was rejected.
C10_OneShot ==
    \A i \in DOMAIN launches :
        /\ launches[i].edits = 1
        /\ launches[i].promise # "pending" => launches[i].promise = launches[i].edit

\* two overlapping invocations, each with its own edit(): the second one is over, with
\* the rejection of its edit(), while the edit() of the first one is still pending
C10_Witness ==
    /\ Len(launches) >= 2
    /\ launches[1].edit = "pending" /\ launches[1].promise = "pending"
    /\ launches[2].edit = "rejected" /\ launches[2].promise = "rejected"

----------------------------------------------------------------------------
(* Specification of an avatar whose morph target managers are managed by hand *)

MaxManagers == 2

\* avatar.morphTargetManagers.add(manager): the set is public, and an avatar made
\* without a root node is filled by its user
AddMorphTargetManager(manager) ==
    /\ Len(morphTargetManagers) < MaxManagers
    /\ \A m \in DOMAIN morphTargetManagers : morphTargetManagers[m] # manager
    /\ morphTargetManagers' = Append(morphTargetManagers, manager)
    /\ UNCHANGED <<nodes, skeletons, mapMorph, showWarnings, sourceAnimationGroup, call, launches, explorer>>

FaceManagers ==
    {[meshName |-> Face, targets |-> <<Smile>>], [meshName |-> Face, targets |-> <<Blink>>]}

InitManagers ==
    /\ nodes = Walker(Origin, Origin)
    /\ skeletons = HipsFootSkeleton
    /\ morphTargetManagers \in {<<>>} \cup {<<m>> : m \in FaceManagers}
    /\ mapMorph = NoMorphMap
    /\ showWarnings = TRUE
    /\ sourceAnimationGroup \in
          Groups(NodeAnimations(nodes, {<<2, "position">>})
                 \cup MorphAnimations({<<1, Smile, Face>>, <<2, Blink, Face>>}))
    /\ call = NoCall
    /\ launches = <<>>
    /\ explorer = NoExplorer

RetargetDefault == RetargetAnimationGroup(NoOptions)

AddManager == \E manager \in FaceManagers : AddMorphTargetManager(manager)

NextManagers == RetargetDefault \/ ReadMorphTargetMap \/ AddManager

SpecManagers == InitManagers /\ [][NextManagers]_vars

\* C11: the group a call returns is the one the same call returns on an avatar on which
\* nothing was called or read before, with the same skeletons, morph target managers
\* and showWarnings.
C11_NoPersistentState ==
    Returned =>
        call.animationGroup =
            retargetAnimationGroup(skeletons, call.morphTargetManagers, NoMorphMap,
                                   call.showWarnings, call.source, call.options).animationGroup

----------------------------------------------------------------------------
(* The particle system editor launcher *)

\* A particle system: whether getScene() gives a scene, isNodeGenerated, and whether its
\* source is a system set or null.
ParticleSystems == [scene : BOOLEAN, isNodeGenerated : BOOLEAN, source : {"set", "null"}]

\* An invocation of EditParticleSystem: its argument, how it was invoked, where the
\* function is (pc), the calls made to ConvertToNodeParticleSystemSetAsync and the state
\* of the promise it returned, the calls made to editAsync, the set edited, the
\* disposeOnClose given, the state of the promise editAsync returned and that of the
\* promise given to the caller.
Invocation(ps, via) ==
    [fn |-> "EditParticleSystem", ps |-> ps, via |-> via, pc |-> "done",
     conversions |-> 0, conversion |-> "none",
     edits |-> 0, editedSet |-> "none", disposeOnClose |-> "none", edit |-> "none",
     promise |-> "fulfilled"]

\* systemSet.editAsync({ nodeEditorConfig: { ..., disposeOnClose: !isNodeGenerated } }) and
\* the await of its promise
EditAsync(l, systemSet) ==
    [l EXCEPT !.edits = @ + 1, !.editedSet = systemSet,
              !.disposeOnClose = IF l.ps.isNodeGenerated THEN "false" ELSE "true",
              !.edit = "pending", !.pc = "editAsync", !.promise = "pending"]

\* the call of EditParticleSystem, up to its first await or to its end
EditParticleSystem(ps, via) ==
    /\ Len(launches) < MaxLaunches
    /\ launches' = Append(launches,
          IF ~ps.scene THEN Invocation(ps, via)
          ELSE IF ps.isNodeGenerated
               THEN IF ps.source = "set" THEN EditAsync(Invocation(ps, via), "source")
                    ELSE Invocation(ps, via)
               ELSE [Invocation(ps, via) EXCEPT !.conversions = 1, !.conversion = "pending",
                                                !.pc = "convert", !.promise = "pending"])
    /\ UNCHANGED <<avatarVars, explorer>>

\* the command of the particle system explorer: offered on node generated particle
\* systems, it executes EditParticleSystem
editParticleSystemCommand(ps) ==
    /\ ps.isNodeGenerated
    /\ EditParticleSystem(ps, "command")

\* the engine settles the promise of ConvertToNodeParticleSystemSetAsync
ConversionSettles(i, outcome) ==
    /\ launches[i].fn = "EditParticleSystem"
    /\ launches[i].conversion = "pending"
    /\ launches' = [launches EXCEPT ![i].conversion = outcome]
    /\ UNCHANGED <<avatarVars, explorer>>

\* a variant that tells the editor not to dispose the converted set
KeepOnClose(i) ==
    /\ launches[i].fn = "EditParticleSystem"
    /\ launches[i].pc = "convert"
    /\ launches[i].conversion # "pending"
    /\ launches' = [launches EXCEPT ![i] =
          CASE @.conversion = "rejected" -> [@ EXCEPT !.pc = "done", !.promise = "rejected"]
            [] @.conversion = "null" -> [@ EXCEPT !.pc = "done", !.promise = "fulfilled"]
            [] OTHER -> [EditAsync(@, "converted") EXCEPT !.disposeOnClose = "false"]]
    /\ UNCHANGED <<avatarVars, explorer>>

\* the function resumes after the await of the conversion
ResumeAfterConversion(i) ==
    /\ launches[i].fn = "EditParticleSystem"
    /\ launches[i].pc = "convert"
    /\ launches[i].conversion # "pending"
    /\ launches' = [launches EXCEPT ![i] =
          CASE @.conversion = "rejected" -> [@ EXCEPT !.pc = "done", !.promise = "rejected"]
            [] @.conversion = "null" -> [@ EXCEPT !.pc = "done", !.promise = "fulfilled"]
            [] OTHER -> EditAsync(@, "converted")]
    /\ UNCHANGED <<avatarVars, explorer>>

\* the engine settles the promise of editAsync
EditAsyncSettles(i, outcome) ==
    /\ launches[i].fn = "EditParticleSystem"
    /\ launches[i].edit = "pending"
    /\ launches' = [launches EXCEPT ![i].edit = outcome]
    /\ UNCHANGED <<avatarVars, explorer>>

\* the function resumes after the await of editAsync and ends
ResumeAfterEdit(i) ==
    /\ launches[i].fn = "EditParticleSystem"
    /\ launches[i].pc = "editAsync"
    /\ launches[i].edit \in {"fulfilled", "rejected"}
    /\ launches' = [launches EXCEPT ![i].pc = "done", ![i].promise = launches[i].edit]
    /\ UNCHANGED <<avatarVars, explorer>>

InitParticles == InitEditors

InvokeDirectly == \E ps \in ParticleSystems : EditParticleSystem(ps, "direct")

ExecuteCommand == \E ps \in ParticleSystems : editParticleSystemCommand(ps)

Converted ==
    \E i \in DOMAIN launches : \E outcome \in {"set", "null", "rejected"} : ConversionSettles(i, outcome)

AfterConversion == \E i \in DOMAIN launches : ResumeAfterConversion(i)

Edited ==
    \E i \in DOMAIN launches : \E outcome \in {"fulfilled", "rejected"} : EditAsyncSettles(i, outcome)

AfterEdit == \E i \in DOMAIN launches : ResumeAfterEdit(i)

NextParticles ==
    \/ InvokeDirectly
    \/ ExecuteCommand
    \/ Converted
    \/ AfterConversion
    \/ Edited
    \/ AfterEdit

SpecParticles == InitParticles /\ [][NextParticles]_vars

\* the conversion of invocation l is over and the function has gone on
PastConversion(l) == l.conversions = 1 /\ l.pc # "convert"

\* C12: an invocation on a particle system without a scene converts nothing and opens no
\* editor; on a node generated one it converts nothing and opens the editor on its
\* source with disposeOnClose false; on another one it converts once and, the conversion
\* over, opens the editor on the converted set with disposeOnClose true; no editor is
\* opened on a null set; editAsync is called at most once, and not while the conversion
\* is pending.
C12_EditParticleSystem ==
    \A i \in DOMAIN launches :
        LET l == launches[i]
        IN  /\ l.edits <= 1
            /\ l.edits = 1 => l.conversion # "pending"
            /\ ~l.ps.scene => l.conversions = 0 /\ l.edits = 0
            /\ (l.ps.scene /\ l.ps.isNodeGenerated) =>
                  /\ l.conversions = 0
                  /\ l.edits = (IF l.ps.source = "set" THEN 1 ELSE 0)
                  /\ l.edits = 1 => l.editedSet = "source" /\ l.disposeOnClose = "false"
            /\ (l.ps.scene /\ ~l.ps.isNodeGenerated) =>
                  /\ l.conversions = 1
                  /\ l.edits = (IF PastConversion(l) /\ l.conversion = "set" THEN 1 ELSE 0)
                  /\ l.edits = 1 => l.editedSet = "converted" /\ l.disposeOnClose = "true"

\* an invocation that converted its particle system and opened the editor on the
\* converted set, after one on a node generated system whose editor is still open
C12_Witness ==
    /\ Len(launches) >= 2
    /\ launches[1].ps.isNodeGenerated /\ launches[1].editedSet = "source"
    /\ launches[1].edit = "pending"
    /\ ~launches[2].ps.isNodeGenerated /\ launches[2].conversion = "set"
    /\ launches[2].editedSet = "converted" /\ launches[2].disposeOnClose = "true"

----------------------------------------------------------------------------
(* The explorer services *)

MaxTracks == 2

\* what sceneExplorerService.addSection and addEntityCommand hold until the registration
\* they returned is disposed, and what InterceptProperty and InterceptFunction hold until
\* the hook they returned is disposed
Section(service, displayName) ==
    [service |-> service, kind |-> "section", name |-> displayName, track |-> 0]

Command(service, displayName) ==
    [service |-> service, kind |-> "command", name |-> displayName, track |-> 0]

Hook(name, track) == [service |-> "Sound", kind |-> "hook", name |-> name, track |-> track]

\* a factory: with no current scene it returns undefined; else it registers and returns
\* the service
Factory(service, scene, registered) ==
    /\ explorer.services[service] # "created"
    /\ explorer' = IF ~scene THEN [explorer EXCEPT !.services[service] = "undefined"]
                   ELSE [explorer EXCEPT !.services[service] = "created",
                                         !.registrations = @ \cup registered]
    /\ UNCHANGED <<avatarVars, launches>>

\* the dispose of a service: it disposes the registrations it names
Dispose(service, disposed) ==
    /\ explorer.services[service] = "created"
    /\ explorer' = [explorer EXCEPT !.services[service] = "disposed",
                                    !.registrations = @ \ disposed]
    /\ UNCHANGED <<avatarVars, launches>>

FrameGraphExplorerService(scene) ==
    Factory("FrameGraph", scene,
            {Section("FrameGraph", "Frame Graphs"), Command("FrameGraph", "Make Active"),
             Command("FrameGraph", "Edit Graph")})

\* a variant of the dispose of the frame graph explorer that leaves the Make Active
\* command registered
DisposeSectionAndEdit ==
    Dispose("FrameGraph",
            {Section("FrameGraph", "Frame Graphs"), Command("FrameGraph", "Edit Graph")})

DisposeFrameGraphExplorer ==
    Dispose("FrameGraph",
            {Section("FrameGraph", "Frame Graphs"), Command("FrameGraph", "Make Active"),
             Command("FrameGraph", "Edit Graph")})

ParticleSystemExplorerService(scene) ==
    Factory("ParticleSystem", scene,
            {Section("ParticleSystem", "Particle Systems"),
             Command("ParticleSystem", "Edit in Node Particle System Editor")})

DisposeParticleSystemExplorer ==
    Dispose("ParticleSystem",
            {Section("ParticleSystem", "Particle Systems"),
             Command("ParticleSystem", "Edit in Node Particle System Editor")})

MaterialExplorerService(scene) ==
    Factory("Material", scene,
            {Section("Material", "Materials"), Command("Material", "Edit in Node Material Editor")})

DisposeMaterialExplorer ==
    Dispose("Material",
            {Section("Material", "Materials"), Command("Material", "Edit in Node Material Editor")})

\* the hooks held in the variables addSoundHook and removeSoundHook of the factory
HeldHooks(e) ==
    {Hook("addSound", e.addSoundHook) : t \in {e.addSoundHook} \ {0}}
      \cup {Hook("removeSound", e.removeSoundHook) : t \in {e.removeSoundHook} \ {0}}

\* hookMainSoundTrack: the hooks held are disposed and, if there is a main sound track,
\* its addSound and removeSound are hooked
hookMainSoundTrack(e, mainSoundTrack) ==
    [e EXCEPT !.registrations =
                  (@ \ HeldHooks(e))
                    \cup (IF mainSoundTrack = 0 THEN {}
                          ELSE {Hook("addSound", mainSoundTrack), Hook("removeSound", mainSoundTrack)}),
              !.addSoundHook = mainSoundTrack,
              !.removeSoundHook = mainSoundTrack]

SoundExplorerService(scene) ==
    /\ explorer.services["Sound"] # "created"
    /\ explorer' =
          IF ~scene THEN [explorer EXCEPT !.services["Sound"] = "undefined"]
          ELSE LET fresh == [explorer EXCEPT !.addSoundHook = 0, !.removeSoundHook = 0]
                   hooked == hookMainSoundTrack(fresh, explorer.mainSoundTrack)
               IN  [hooked EXCEPT !.services["Sound"] = "created",
                                  !.registrations = @ \cup {Hook("_mainSoundTrack", 0),
                                                            Section("Sound", "Sounds")}]
    /\ UNCHANGED <<avatarVars, launches>>

DisposeSoundExplorer ==
    /\ explorer.services["Sound"] = "created"
    /\ explorer' = [explorer EXCEPT !.services["Sound"] = "disposed",
                                    !.registrations =
                                        ((@ \ {Hook("_mainSoundTrack", 0)}) \ HeldHooks(explorer))
                                          \ {Section("Sound", "Sounds")}]
    /\ UNCHANGED <<avatarVars, launches>>

\* the engine sets scene._mainSoundTrack; the hook of the sound explorer, if it is
\* there, runs hookMainSoundTrack after the set
SetMainSoundTrack(track) ==
    /\ track # explorer.mainSoundTrack
    /\ explorer' =
          LET set == [explorer EXCEPT !.mainSoundTrack = track]
          IN  IF Hook("_mainSoundTrack", 0) \in explorer.registrations
              THEN hookMainSoundTrack(set, track) ELSE set
    /\ UNCHANGED <<avatarVars, launches>>

InitExplorers ==
    /\ nodes = Walker(Origin, Origin)
    /\ skeletons = HipsFootSkeleton
    /\ morphTargetManagers = OneManager
    /\ mapMorph = NoMorphMap
    /\ showWarnings = TRUE
    /\ sourceAnimationGroup \in
          {g \in Groups(NodeAnimations(nodes, {<<2, "position">>})) : Len(g.targetedAnimations) = 1}
    /\ call = NoCall
    /\ launches = <<>>
    /\ explorer \in {[NoExplorer EXCEPT !.mainSoundTrack = track] : track \in 0..MaxTracks}

FrameGraphFactory == \E scene \in BOOLEAN : FrameGraphExplorerService(scene)

ParticleSystemFactory == \E scene \in BOOLEAN : ParticleSystemExplorerService(scene)

MaterialFactory == \E scene \in BOOLEAN : MaterialExplorerService(scene)

SoundFactory == \E scene \in BOOLEAN : SoundExplorerService(scene)

MainSoundTrackSet == \E track \in 0..MaxTracks : SetMainSoundTrack(track)

NextExplorers ==
    \/ FrameGraphFactory
    \/ ParticleSystemFactory
    \/ MaterialFactory
    \/ SoundFactory
    \/ DisposeFrameGraphExplorer
    \/ DisposeParticleSystemExplorer
    \/ DisposeMaterialExplorer
    \/ DisposeSoundExplorer
    \/ MainSoundTrackSet

SpecExplorers == InitExplorers /\ [][NextExplorers]_vars

\* what service has registered and not disposed
Remaining(service) == {r \in explorer.registrations : r.service = service}

\* C13: a service whose factory returned undefined (no current scene) has registered
\* nothing; a service that was made has its section registered; a service that was
\* disposed has no section, entity command or hook left.
C13_Registrations ==
    \A service \in Services :
        /\ explorer.services[service] \in {"none", "undefined", "disposed"} => Remaining(service) = {}
        /\ explorer.services[service] = "created" =>
              \E r \in Remaining(service) : r.kind = "section"

\* the sound explorer disposed after the main sound track was set under it, the frame
\* graph explorer disposed too, the material explorer made, and the particle system
\* explorer not made for want of a scene
C13_Witness ==
    /\ explorer.services["Sound"] = "disposed" /\ explorer.addSoundHook = 2
    /\ explorer.services["FrameGraph"] = "disposed"
    /\ explorer.services["Material"] = "created"
    /\ explorer.services["ParticleSystem"] = "undefined"

====
